---- MODULE Spec2Model ----
(***************************************************************************)
(* A model of the linear constraint solver of the argon layout compiler    *)
(* (core/compiler/src/solver.rs): Solver, LinearExpr, back-substitution,   *)
(* the batched least-squares solve() and grid rounding.                    *)
(*                                                                         *)
(* Numbers.  The code computes in f64.  The model computes on the lattice  *)
(* of multiples of 1e-8: a value, a constant term or a residual is the     *)
(* integer number of 1e-8 units it holds (5.0 is 500000000, the grid step  *)
(* 0.1 is 10000000, the tolerance EPSILON = 1e-8 is 1).  Coefficients are  *)
(* plain integers.  All inputs are lattice points and the operations are   *)
(* enabled only where their results are lattice points too, so the model   *)
(* is exact where f64 has rounding errors far below 1e-8.                  *)
(***************************************************************************)
EXTENDS Integers, Sequences, FiniteSets, TLC

\* ------------------------------------------------------------------ bounds

\* At most this many Solver::new_var calls.
MaxVars == 2
\* At most this many constrain_eq0 calls made by the caller (force_solution
\* registers its own on top of these).
MaxConstraints == 3

\* The coefficient entries of an expression given to simplify on its own.
MaxEntries == 2

\* The largest coordinate of a bounding box.
MaxCoord == 1

\* The cells of a CompiledData, and the objects of a cell.
MaxCells == 2

MaxObjects == 2

\* The statements of a cell body and the arguments of a cell.
MaxStmts == 2

MaxArgs == 2

\* The texts a file goes through in the editor, and the edits the language
\* server inserts into one of them.
MaxTexts == 2

MaxEdits == 2

\* The scopes and if-expressions directly inside one scope.
MaxItems == 2

\* --------------------------------------------------------------- constants

\* const EPSILON: f64 = 1e-8, in units of 1e-8.
EPSILON == 1
\* const ROUND_STEP: f64 = 0.1, in units of 1e-8.
ROUND_STEP == 10000000
\* approx's default epsilon, f64::EPSILON = 2.2e-16, used where relative_eq!
\* is given no epsilon (solver.rs line 104): below the lattice's resolution.
DEFAULT_EPSILON == 0

\* ------------------------------------------------------------- arithmetic

Abs(x) == IF x < 0 THEN -x ELSE x

Sgn(x) == IF x < 0 THEN -1 ELSE IF x > 0 THEN 1 ELSE 0

RECURSIVE Gcd(_, _)
Gcd(a, b) == IF b = 0 THEN Abs(a) ELSE Gcd(b, a % Abs(b))

\* A sequence, or a map, given by an expression [i \in S |-> e], with its
\* elements computed once.
Listed(f) == SubSeq(f, 1, Len(f))

Tabled(f) == f @@ <<>>

RECURSIVE SumSeq(_)
SumSeq(q) == IF q = <<>> THEN 0 ELSE q[1] + SumSeq(Tail(q))

RECURSIVE FoldGcd(_)
FoldGcd(q) == IF q = <<>> THEN 0 ELSE Gcd(q[1], FoldGcd(Tail(q)))

\* approx::relative_eq!(a, b, epsilon = eps): equal, or |a - b| <= eps, or
\* |a - b| <= max(|a|, |b|) * max_relative with max_relative = f64::EPSILON;
\* the last bound is below one lattice unit for every |value| < 4.5e7.
relative_eq(a, b, eps) == a = b \/ Abs(a - b) <= eps

relative_ne(a, b, eps) == ~relative_eq(a, b, eps)

\* round with the fraction of a grid step cut off instead of rounded.
round_Truncates(x) == Sgn(x) * (Abs(x) \div ROUND_STEP) * ROUND_STEP

\* fn round(x) = (x * INV_ROUND_STEP).round() * ROUND_STEP: the nearest grid
\* point, halves away from zero (f64::round).
round(x) == Sgn(x) * ((Abs(x) + ROUND_STEP \div 2) \div ROUND_STEP) * ROUND_STEP

\* f64 division -constant / coeff of a lattice value by an integer coefficient,
\* to the nearest lattice point (exact whenever coeff divides num).
DivNearest(num, den) ==
    LET n == IF den < 0 THEN -num ELSE num
        d == Abs(den)
        q == Abs(n) \div d
        r == Abs(n) % d
    IN  Sgn(n) * (IF 2 * r >= d THEN q + 1 ELSE q)

\* ------------------------------------------------------------- LinearExpr

\* struct LinearExpr { coeffs: Vec<(f64, Var)>, constant: f64 }
LinearExpr(coeffs, constant) == [coeffs |-> coeffs, constant |-> constant]

\* impl From<Var> for LinearExpr
\* From<Var> with a constant of one grid step in place of 0.
FromVar_WithConstant(v) == LinearExpr(<<<<1, v>>>>, -ROUND_STEP)

FromVar(v) == LinearExpr(<<<<1, v>>>>, 0)

\* relative_eq!(*coeff, 0., epsilon = EPSILON) on an integer coefficient.
CoeffIsZero(c) == c = 0

\* The Either::Left values of LinearExpr::simplify: 0 for a zero coefficient,
\* coeff * s for a variable of the table.
RECURSIVE SimplifyLeft(_, _)
SimplifyLeft(coeffs, table) ==
    IF coeffs = <<>> THEN <<>>
    ELSE LET a == coeffs[1]
             rest == SimplifyLeft(Tail(coeffs), table)
         IN  IF CoeffIsZero(a[1]) THEN <<0>> \o rest
             ELSE IF a[2] \in DOMAIN table THEN <<a[1] * table[a[2]]>> \o rest
             ELSE rest

\* The Either::Right values of a simplify that keeps every entry.
SimplifyRight_KeepsAll(coeffs, table) == coeffs

\* The Either::Right values of LinearExpr::simplify: the entries kept.
SimplifyRight(coeffs, table) ==
    SelectSeq(coeffs, LAMBDA a : ~CoeffIsZero(a[1]) /\ a[2] \notin DOMAIN table)

\* LinearExpr::simplify(&mut self, table)
simplify(expr, table) ==
    LinearExpr(SimplifyRight(expr.coeffs, table),
               expr.constant + SumSeq(SimplifyLeft(expr.coeffs, table)))

\* ----------------------------------------------------------------- Solver

\* IndexMap::insert(k, v)
MapInsert(f, k, v) ==
    Tabled([x \in DOMAIN f \cup {k} |-> IF x = k THEN v ELSE f[x]])

\* IndexSet::insert on an insertion-ordered set kept as a sequence.
SetInsert(q, x) == IF \E i \in DOMAIN q : q[i] = x THEN q ELSE Append(q, x)

\* The position of x in the sequence q (get_index_of, 1-based), 0 if absent.
IndexOf(q, x) == IF \E i \in DOMAIN q : q[i] = x
                 THEN CHOOSE i \in DOMAIN q : q[i] = x
                 ELSE 0

\* indexmap's swap_remove at position i: the last element takes the place of
\* the removed one.
SwapRemoveAt(q, i) ==
    IF i = 0 THEN q
    ELSE IF i = Len(q) THEN SubSeq(q, 1, Len(q) - 1)
    ELSE Listed([k \in 1..(Len(q) - 1) |-> IF k = i THEN q[Len(q)] ELSE q[k]])

\* Solver::new() = Default::default().  constraints is the IndexMap in its
\* iteration order, each entry [id, expr]; unsolved_vars and the sets of
\* var_to_constraints are IndexSets in their iteration order.  unrounded is
\* a history field: the value each variable had when it was solved, before
\* any rounding.  panicked records a failed unwrap().
NewSolver ==
    [next_var |-> 0,
     next_constraint |-> 0,
     constraints |-> <<>>,
     var_to_constraints |-> <<>>,
     solved_vars |-> <<>>,
     unsolved_vars |-> <<>>,
     back_substitute_stack |-> <<>>,
     inconsistent_constraints |-> {},
     invalid_rounding |-> {},
     unrounded |-> <<>>,
     panicked |-> FALSE]

\* new_var without its unsolved_vars.insert(var).
new_var_NotMarkedUnsolved(s) == [s EXCEPT !.next_var = @ + 1]

\* Solver::new_var
new_var(s) ==
    [s EXCEPT !.unsolved_vars = SetInsert(@, s.next_var),
              !.next_var = @ + 1]

\* Solver::fully_solved
fully_solved(s) == s.unsolved_vars = <<>>

\* Option<f64>: None is the empty sequence, Some(c) the sequence of c.
None == <<>>

Some(c) == <<c>>

\* Solver::value_of
value_of(s, var) ==
    IF var \in DOMAIN s.solved_vars THEN Some(s.solved_vars[var]) ELSE None

\* Solver::is_solved
is_solved(s, var) == var \in DOMAIN s.solved_vars

\* solve_var without its unsolved_vars.swap_remove(&var).
solve_var_KeepsUnsolved(s, var, val) ==
    [s EXCEPT !.solved_vars = MapInsert(@, var, val)]

\* Solver::solve_var
solve_var(s, var, val) ==
    [s EXCEPT !.solved_vars = MapInsert(@, var, val),
              !.unsolved_vars = SwapRemoveAt(@, IndexOf(@, var))]

\* The position of constraint id in the constraints map, 0 if absent.
ConstraintIndex(s, id) ==
    IF \E i \in DOMAIN s.constraints : s.constraints[i].id = id
    THEN CHOOSE i \in DOMAIN s.constraints : s.constraints[i].id = id
    ELSE 0

\* var_to_constraints read as if it held no id for any variable: a solved
\* value is substituted into no other constraint.
ConstraintsOf_None(s, var) == <<>>

\* The ids var_to_constraints holds for var (empty for an unknown var).
ConstraintsOf(s, var) ==
    IF var \in DOMAIN s.var_to_constraints THEN s.var_to_constraints[var] ELSE <<>>

\* try_back_substitute without its first inconsistent_constraints.insert(id):
\* a constraint left with no coefficient and a non-zero constant is removed
\* and not recorded.
try_back_substitute_DropsConflict(s) ==
    IF s.back_substitute_stack = <<>> THEN s
    ELSE
    LET id == s.back_substitute_stack[Len(s.back_substitute_stack)]
        popped == [s EXCEPT !.back_substitute_stack = SubSeq(@, 1, Len(@) - 1)]
        idx == ConstraintIndex(popped, id)
    IN  IF idx = 0 THEN popped
        ELSE
        LET constraint == simplify(popped.constraints[idx].expr, popped.solved_vars)
            s1 == [popped EXCEPT !.constraints[idx].expr = constraint]
        IN  IF constraint.coeffs = <<>>
               /\ ~relative_eq(constraint.constant, 0, DEFAULT_EPSILON)
            THEN [s1 EXCEPT !.constraints = SwapRemoveAt(@, idx)]
            ELSE IF Len(constraint.coeffs) # 1 THEN s1
            ELSE
            LET var == constraint.coeffs[1][2]
                val == DivNearest(-constraint.constant, constraint.coeffs[1][1])
                s2 == solve_var(
                        [s1 EXCEPT
                           !.invalid_rounding =
                               IF relative_ne(val, round(val), EPSILON)
                               THEN @ \cup {var} ELSE @,
                           !.unrounded = MapInsert(@, var, val)],
                        var, round(val))
            IN  [s2 EXCEPT !.constraints = SwapRemoveAt(@, idx),
                           !.back_substitute_stack = @ \o ConstraintsOf(s2, var)]

\* Solver::try_back_substitute
try_back_substitute(s) ==
    IF s.back_substitute_stack = <<>> THEN s
    ELSE
    LET id == s.back_substitute_stack[Len(s.back_substitute_stack)]
        popped == [s EXCEPT !.back_substitute_stack = SubSeq(@, 1, Len(@) - 1)]
        idx == ConstraintIndex(popped, id)
    IN  IF idx = 0 THEN popped
        ELSE
        LET constraint == simplify(popped.constraints[idx].expr, popped.solved_vars)
            s1 == [popped EXCEPT !.constraints[idx].expr = constraint]
        IN  IF constraint.coeffs = <<>>
               /\ ~relative_eq(constraint.constant, 0, DEFAULT_EPSILON)
            THEN [s1 EXCEPT !.inconsistent_constraints = @ \cup {id},
                            !.constraints = SwapRemoveAt(@, idx)]
            ELSE IF Len(constraint.coeffs) # 1 THEN s1
            ELSE
            LET coeff == constraint.coeffs[1][1]
                var == constraint.coeffs[1][2]
                val == DivNearest(-constraint.constant, coeff)
                rounded_val == round(val)
                s2 == IF var \in DOMAIN s1.solved_vars
                      THEN IF relative_ne(s1.solved_vars[var], val, EPSILON)
                           THEN [s1 EXCEPT !.inconsistent_constraints = @ \cup {id}]
                           ELSE s1
                      ELSE solve_var(
                             [s1 EXCEPT
                                !.invalid_rounding =
                                    IF relative_ne(val, rounded_val, EPSILON)
                                    THEN @ \cup {var} ELSE @,
                                !.unrounded = MapInsert(@, var, val)],
                             var, rounded_val)
            IN  [s2 EXCEPT !.constraints = SwapRemoveAt(@, idx),
                           !.back_substitute_stack = @ \o ConstraintsOf(s2, var)]

\* The loop of constrain_eq0 as an if: one try_back_substitute.
DrainStack_Once(s) == try_back_substitute(s)

\* The loop of constrain_eq0: while !back_substitute_stack.is_empty().
RECURSIVE DrainStack(_)
DrainStack(s) ==
    IF s.back_substitute_stack = <<>> THEN s
    ELSE DrainStack(try_back_substitute(s))

\* The for loop of constrain_eq0 registering id under each variable of expr.
RECURSIVE RegisterVars(_, _, _)
RegisterVars(v2c, coeffs, id) ==
    IF coeffs = <<>> THEN v2c
    ELSE LET var == coeffs[1][2]
             old == IF var \in DOMAIN v2c THEN v2c[var] ELSE <<>>
         IN  RegisterVars(MapInsert(v2c, var, SetInsert(old, id)), Tail(coeffs), id)

\* Solver::constrain_eq0; the id it returns is the old next_constraint.
constrain_eq0(s, expr) ==
    LET id == s.next_constraint
    IN  DrainStack(
          [s EXCEPT !.next_constraint = @ + 1,
                    !.var_to_constraints = RegisterVars(@, expr.coeffs, id),
                    !.constraints = Append(@, [id |-> id, expr |-> expr]),
                    !.back_substitute_stack = Append(@, id)])

\* ------------------------------------------------- the least-squares pass

\* The dense matrix a of solve(): one row per stored constraint, one column
\* per unsolved variable of the snapshot; CsMatrix::from_triplet adds up the
\* triplets that share a cell.
MatrixA(s) ==
    Listed([i \in 1..Len(s.constraints) |->
        Listed([j \in 1..Len(s.unsolved_vars) |->
            SumSeq(Listed([k \in 1..Len(s.constraints[i].expr.coeffs) |->
                      IF s.constraints[i].expr.coeffs[k][2] = s.unsolved_vars[j]
                      THEN s.constraints[i].expr.coeffs[k][1] ELSE 0]))])])

\* The vector b of solve(): -constant of each stored constraint.
VectorB(s) ==
    Listed([i \in 1..Len(s.constraints) |-> -s.constraints[i].expr.constant])

\* unsolved_vars.get_index_of(var).unwrap() fails for some stored coefficient.
UnwrapFails(s) ==
    \E i \in 1..Len(s.constraints) :
        \E k \in 1..Len(s.constraints[i].expr.coeffs) :
            IndexOf(s.unsolved_vars, s.constraints[i].expr.coeffs[k][2]) = 0

\* A row divided by the gcd of its entries.
Primitive(row) ==
    LET g == FoldGcd(row)
    IN  IF g = 0 THEN row ELSE Listed([k \in DOMAIN row |-> row[k] \div g])

\* The normal equations of a, (a^T a | a^T): row j holds a^T a's row j and
\* then a^T's row j (divided by their common factor), so that any x with
\* (a^T a) x = a^T b is a least-squares solution, as svd.solve(&b, EPSILON)
\* returns for the components the constraints determine.
NormalRows(a, m, n) ==
    Listed([j \in 1..n |->
        Primitive(Listed([k \in 1..(n + m) |->
            IF k <= n THEN SumSeq(Listed([i \in 1..m |-> a[i][j] * a[i][k]]))
            ELSE a[k - n][j]]))])

\* Gauss-Jordan elimination of the first n columns over the rationals,
\* fraction-free on integer rows: [rows, rank].
RECURSIVE GaussJordan(_, _, _, _)
GaussJordan(rows, col, prow, n) ==
    IF col > n \/ prow > Len(rows) THEN [rows |-> rows, rank |-> prow - 1]
    ELSE
    LET cands == {k \in prow..Len(rows) : rows[k][col] # 0}
    IN  IF cands = {} THEN GaussJordan(rows, col + 1, prow, n)
        ELSE
        LET k == CHOOSE x \in cands : \A y \in cands : x <= y
            swapped == [rows EXCEPT ![prow] = rows[k], ![k] = rows[prow]]
            p == swapped[prow]
            elim == Listed([i \in 1..Len(rows) |->
                       IF i = prow \/ swapped[i][col] = 0 THEN swapped[i]
                       ELSE Primitive(Listed([c \in DOMAIN p |->
                              p[col] * swapped[i][c] - swapped[i][col] * p[c]]))])
        IN  GaussJordan(elim, col + 1, prow + 1, n)

\* The singular value decomposition of a, as far as solve() reads it: the
\* rank (svd.rank(EPSILON)), and the reduced normal equations from which the
\* row space and the least-squares solution are read.
Svd(s) ==
    LET m == Len(s.constraints)
        n == Len(s.unsolved_vars)
    IN  GaussJordan(NormalRows(MatrixA(s), m, n), 1, 1, n)

\* The reduced row that gives column j alone, 0 if there is none.
UnitRow(svd, j, n) ==
    LET hit == {k \in 1..Len(svd.rows) :
                  svd.rows[k][j] # 0 /\ \A c \in 1..n : c # j => svd.rows[k][c] = 0}
    IN  IF hit = {} THEN 0 ELSE CHOOSE k \in hit : TRUE

\* recons = (vt_recons^T vt_recons)[(i, i)] is 1 within EPSILON: the unit
\* vector of column j lies in the row space of a, so the constraints
\* determine the variable.
Determined(svd, j, n) == UnitRow(svd, j, n) # 0

\* The numerator and denominator of sol[(j, 0)] for a determined column j.
SolNum(svd, j, n, b) ==
    LET row == svd.rows[UnitRow(svd, j, n)]
    IN  SumSeq(Listed([i \in 1..Len(b) |-> row[n + i] * b[i]]))

SolDen(svd, j, n) == svd.rows[UnitRow(svd, j, n)][j]

\* sol[(j, 0)] of svd.solve(&b, EPSILON)
Sol(svd, j, n, b) == DivNearest(SolNum(svd, j, n, b), SolDen(svd, j, n))

\* Every value solve() would commit is a lattice point.
SolExact(s) ==
    LET n == Len(s.unsolved_vars)
        svd == Svd(s)
    IN  \A j \in 1..n :
            Determined(svd, j, n) => SolNum(svd, j, n, VectorB(s)) % Abs(SolDen(svd, j, n)) = 0

\* The commit loop of solve() naming the variable by its column index,
\* Var(i), instead of *var.
RECURSIVE CommitDetermined_ByColumn(_, _, _, _, _)
CommitDetermined_ByColumn(s, snapshot, svd, b, j) ==
    IF j > Len(snapshot) THEN s
    ELSE IF Determined(svd, j, Len(snapshot))
         THEN CommitDetermined_ByColumn(
                solve_var([s EXCEPT !.unrounded =
                                MapInsert(@, j - 1, Sol(svd, j, Len(snapshot), b))],
                          j - 1, Sol(svd, j, Len(snapshot), b)),
                snapshot, svd, b, j + 1)
         ELSE CommitDetermined_ByColumn(s, snapshot, svd, b, j + 1)

\* The loop of solve() over the snapshot of unsolved variables: commit the
\* determined ones.
RECURSIVE CommitDetermined(_, _, _, _, _)
CommitDetermined(s, snapshot, svd, b, j) ==
    IF j > Len(snapshot) THEN s
    ELSE IF Determined(svd, j, Len(snapshot))
         THEN CommitDetermined(
                solve_var([s EXCEPT !.unrounded =
                                MapInsert(@, snapshot[j], Sol(svd, j, Len(snapshot), b))],
                          snapshot[j], Sol(svd, j, Len(snapshot), b)),
                snapshot, svd, b, j + 1)
         ELSE CommitDetermined(s, snapshot, svd, b, j + 1)

\* The loop of solve() over the stored constraints without its
\* inconsistent_constraints.insert(*id).
ResimplifyAll_FlagsNothing(s) ==
    [s EXCEPT !.constraints =
        Listed([i \in 1..Len(s.constraints) |->
            [id |-> s.constraints[i].id,
             expr |-> simplify(s.constraints[i].expr, s.solved_vars)]])]

\* The loop of solve() over the stored constraints: simplify each and flag
\* the ones left with no coefficient and a constant beyond EPSILON.
ResimplifyAll(s) ==
    LET simp == Listed([i \in 1..Len(s.constraints) |->
                    [id |-> s.constraints[i].id,
                     expr |-> simplify(s.constraints[i].expr, s.solved_vars)]])
    IN  [s EXCEPT !.constraints = simp,
                  !.inconsistent_constraints =
                      @ \cup {simp[i].id : i \in
                                {k \in 1..Len(simp) :
                                    /\ simp[k].expr.coeffs = <<>>
                                    /\ relative_ne(simp[k].expr.constant, 0, EPSILON)}}]

\* The loop of solve() over 0..next_var: round each solved value that is
\* within EPSILON of the grid, flag the others.
RoundAll(s) ==
    LET vs == {v \in DOMAIN s.solved_vars : v >= 0 /\ v < s.next_var}
        off(v) == relative_ne(s.solved_vars[v], round(s.solved_vars[v]), EPSILON)
    IN  [s EXCEPT !.invalid_rounding = @ \cup {v \in vs : off(v)},
                  !.solved_vars = Tabled([v \in DOMAIN @ |->
                                     IF v \in vs /\ ~off(v) THEN round(@[v]) ELSE @[v]])]

\* constraints.retain(|_, constraint| !constraint.coeffs.is_empty())
RetainPending(s) ==
    [s EXCEPT !.constraints = SelectSeq(@, LAMBDA c : c.expr.coeffs # <<>>)]

\* Solver::solve
solve(s) ==
    IF Len(s.unsolved_vars) = 0 \/ s.constraints = <<>> THEN s
    ELSE IF UnwrapFails(s) THEN [s EXCEPT !.panicked = TRUE]
    ELSE
    LET svd == Svd(s)
    IN  IF svd.rank = 0 THEN s
        ELSE RetainPending(RoundAll(ResimplifyAll(
                CommitDetermined(s, s.unsolved_vars, svd, VectorB(s), 1))))

\* solve() commits lattice points only (or commits nothing).
SolveIsExact(s) ==
    \/ Len(s.unsolved_vars) = 0
    \/ s.constraints = <<>>
    \/ UnwrapFails(s)
    \/ SolExact(s)

\* Solver::force_solution, with a record of its loop: the number of
\* iterations, whether every iteration left fewer unsolved variables than it
\* found, and whether every solve() in it was exact:
\* [solver, iterations, progress, exact].  The code's loop has no bound; the
\* model stops it after MaxVars + 1 iterations.
RECURSIVE ForceLoop(_, _)
ForceLoop(s, acc) ==
    IF fully_solved(s) \/ s.panicked \/ acc.iterations > MaxVars
    THEN [solver |-> s, iterations |-> acc.iterations,
          progress |-> acc.progress, exact |-> acc.exact]
    ELSE LET pinned == constrain_eq0(s, FromVar(s.unsolved_vars[1]))
             after == solve(pinned)
         IN  ForceLoop(after,
                       [iterations |-> acc.iterations + 1,
                        progress |-> acc.progress
                                     /\ Len(after.unsolved_vars) < Len(s.unsolved_vars),
                        exact |-> acc.exact /\ SolveIsExact(pinned)])

force_solution(s) ==
    ForceLoop(s, [iterations |-> 0, progress |-> TRUE, exact |-> TRUE])

\* ----------------------------------------------------------- the program

VARIABLES
    solver,     \* the Solver
    last,       \* the last call made on it: [op, id, entry, iterations, progress]
    log,        \* the constrain_eq0 calls made so far, where they are recorded
    other,      \* a second Solver, given the same constraints in another order
    simp,       \* a LinearExpr under simplify: [given, table, expr, once, calls]
    bbox,       \* a call of bbox_union: [b1, b2, out, called]
    output,     \* the CompileOutput: [kind, cells, bad, top]
    export,     \* what to_gds did with it: [result, structs, written]
    editor,     \* what EditorState::update did with it: [result, scope_paths]
    pass,       \* a run of VarIdPass: [input, state, done]
    gui,        \* the editor window: [cell, layers, selected_layer, tool, ..]
    lsp,        \* the language server: [buffer, disk, ast, edits, message]
    annot       \* a run of ScopeAnnotationPass: [input, named, edits, done]

\* The state outside the Solver.
rest == <<simp, bbox, output, export, editor, pass, gui, lsp, annot>>

vars == <<solver, last, log, other, rest>>

\* No expression is under simplify.
NoSimp == [given |-> LinearExpr(<<>>, 0), table |-> <<>>,
           expr |-> LinearExpr(<<>>, 0), once |-> LinearExpr(<<>>, 0), calls |-> 0]

\* bbox_union has no arguments yet.
NoBbox == [b1 |-> <<>>, b2 |-> <<>>, out |-> <<>>, called |-> FALSE]

\* No CompileOutput, and nothing done with it.
NoOutput == [kind |-> "none", cells |-> <<>>, bad |-> {}, top |-> 0]

NoExport == [result |-> "none", structs |-> <<>>, written |-> FALSE]

NoEditor == [result |-> "none", scope_paths |-> <<>>]

\* VarIdPass::new: space for the global namespace, and the first id; panic
\* is the message the pass panicked with, refs the ids its VarExprs got.
NewVarIdPass == [next_id |-> 1, bindings |-> <<<<>>>>, panic |-> "", refs |-> <<>>]

NoInput == [found |-> TRUE, params |-> {}, args |-> <<>>, stmts |-> <<>>]

NoPass == [input |-> NoInput, state |-> NewVarIdPass, done |-> FALSE]

\* ToolState: the tool, and what it holds: the first corner of DrawRect (p0
\* is Some), the edges DrawDim has picked, the object Select has selected.
Tool(kind, p0, edges, selected_obj) ==
    [kind |-> kind, p0 |-> p0, edges |-> edges, selected_obj |-> selected_obj]

\* ToolState::default
ToolDefault == Tool("Select", FALSE, 0, FALSE)

\* Editor::new: no compile output, no layers, the default tool.  cancels
\* counts the Cancel actions since the last other action, up to 2, and held
\* is the tool the first of them found.
NoGui ==
    [cell |-> <<>>, layers |-> {}, selected_layer |-> <<>>, tool |-> ToolDefault,
     cancels |-> 0, held |-> ToolDefault]

\* A text of the target file: the text the user typed, and the number of
\* edits the language server has inserted into it.
Text(base, inserted) == [base |-> base, inserted |-> inserted]

\* The language server before the file is opened or parsed: editor_files
\* has no document for the file (buffer), ast has no tree for it, and edits
\* lists the edits sent to the editor, each with the text its position was
\* computed on (on) and the source of the tree its spans came from (spans).
\* handled says whether the last step was a handler, and whether it found
\* the scope.
NoLsp ==
    [buffer |-> <<>>, disk |-> Text(0, 0), ast |-> <<>>, edits |-> <<>>,
     message |-> FALSE, handled |-> "no"]

\* No run of ScopeAnnotationPass.
NoAnnot == [input |-> <<>>, named |-> <<>>, edits |-> <<>>, done |-> FALSE]

\* Every part of the state outside the Solver, but the part named, is as it
\* is before anything has run.
Idle(part) ==
    /\ IF part = "simp" THEN TRUE ELSE simp = NoSimp
    /\ IF part = "bbox" THEN TRUE ELSE bbox = NoBbox
    /\ IF part = "output" THEN TRUE ELSE output = NoOutput
    /\ export = NoExport
    /\ editor = NoEditor
    /\ IF part = "pass" THEN TRUE ELSE pass = NoPass
    /\ IF part = "gui" THEN TRUE ELSE gui = NoGui
    /\ IF part = "lsp" THEN TRUE ELSE lsp = NoLsp
    /\ IF part = "annot" THEN TRUE ELSE annot = NoAnnot

\* The state outside the Solver before anything has run.
RestInit == Idle("")

\* The variables allocated so far.
Vars(s) == 0..(s.next_var - 1)

\* The constant terms the caller draws from, as -value: 0, 1e-8 (the
\* tolerance), 0.05 (midway between two grid points) and 0.1 (a grid step).
PinConsts == {0, -1, -5000000, -10000000}

PairConsts == {0, -1, -10000000}

\* The expressions the caller registers over the allocated variables:
\* v + c, 0 * v + c, and v + w + c or v - w + c, where v and w may be the
\* same variable (entries are not merged).
Exprs(s) ==
    {LinearExpr(<<<<1, v>>>>, c) : v \in Vars(s), c \in PinConsts}
    \cup
    {LinearExpr(<<<<0, v>>>>, c) : v \in Vars(s), c \in {0, -10000000}}
    \cup
    {LinearExpr(<<<<1, e[1]>>, <<e[2], e[3]>>>>, c) :
        e \in Vars(s) \X {1, -1} \X Vars(s), c \in PairConsts}

\* last: op is the method called, id the ConstraintId constrain_eq0 returned,
\* entry the number of unsolved variables force_solution found, iterations
\* and progress the record of its loop.
NoCall == [op |-> "new", id |-> 0, entry |-> 0, iterations |-> 0, progress |-> TRUE]

\* A Solver on which nothing has been called.
SolverInit ==
    /\ solver = NewSolver
    /\ last = NoCall
    /\ log = <<>>
    /\ other = NewSolver

Init ==
    /\ solver = NewSolver
    /\ last = NoCall
    /\ log = <<>>
    /\ other = NewSolver
    /\ RestInit

NewVar ==
    /\ solver.next_var < MaxVars
    /\ ~solver.panicked
    /\ solver' = new_var(solver)
    /\ last' = [NoCall EXCEPT !.op = "new_var"]
    /\ UNCHANGED <<log, other, rest>>

ConstrainEq0 ==
    /\ solver.next_constraint < MaxConstraints
    /\ ~solver.panicked
    /\ \E expr \in Exprs(solver) :
          solver' = constrain_eq0(solver, expr)
    /\ last' = [NoCall EXCEPT !.op = "constrain_eq0", !.id = solver.next_constraint]
    /\ UNCHANGED <<log, other, rest>>

Solve ==
    /\ ~solver.panicked
    /\ SolveIsExact(solver)
    /\ solver' = solve(solver)
    /\ last' = [NoCall EXCEPT !.op = "solve"]
    /\ UNCHANGED <<log, other, rest>>

ForceSolution ==
    /\ ~solver.panicked
    /\ force_solution(solver).exact
    /\ solver' = force_solution(solver).solver
    /\ last' = [NoCall EXCEPT !.op = "force_solution",
                              !.entry = Len(solver.unsolved_vars),
                              !.iterations = force_solution(solver).iterations,
                              !.progress = force_solution(solver).progress]
    /\ UNCHANGED <<log, other, rest>>

Next ==
    \/ NewVar
    \/ ConstrainEq0
    \/ Solve
    \/ ForceSolution

Spec == Init /\ [][Next]_vars

\* The elements of a sequence.
Range(q) == {q[i] : i \in DOMAIN q}

\* The variables an expression has entries for.
VarsOf(expr) == {a[2] : a \in Range(expr.coeffs)}

\* A recorded call: the id constrain_eq0 returned, its argument, and the
\* variables that were unsolved when it was called.
Call(s, expr) ==
    [id |-> s.next_constraint, expr |-> expr, unsolved |-> Range(s.unsolved_vars)]

\* --------------------------------------- back-substitution alone (no solve)

\* The values the caller pins variables to: 5, 6 and 0.05.
ChainValues == {500000000, 600000000, 5000000}

\* v - c
Pin(v, c) == LinearExpr(<<<<1, v>>>>, -c)

\* w - v
Follow(w, v) == LinearExpr(<<<<1, w>>, <<-1, v>>>>, 0)

\* The constraints of a chain: v - c = 0 and w - v = 0.
ChainExprs(s) ==
    {Pin(v, c) : v \in Vars(s), c \in ChainValues}
    \cup
    {Follow(e[1], e[2]) : e \in {d \in Vars(s) \X Vars(s) : d[1] # d[2]}}

ChainConstrain ==
    /\ solver.next_constraint < MaxConstraints
    /\ \E expr \in ChainExprs(solver) :
          /\ solver' = constrain_eq0(solver, expr)
          /\ log' = Append(log, Call(solver, expr))
    /\ last' = [NoCall EXCEPT !.op = "constrain_eq0", !.id = solver.next_constraint]
    /\ UNCHANGED <<other, rest>>

NextBackSub ==
    \/ NewVar
    \/ ChainConstrain

SpecBackSub == Init /\ [][NextBackSub]_vars

\* ------------------------------------------------------ values and the grid

\* The values the constraints give: 9.99999999, 10, 10.00000001, 10.00003
\* and 10.05.
GridValues == {999999999, 1000000000, 1000000001, 1000003000, 1005000000}

\* v + v - 2c, which only solve() can use.
Twice(v, c) == LinearExpr(<<<<1, v>>, <<1, v>>>>, -(2 * c))

\* v - c for any variable, v + v - 2c for a variable no constraint has
\* mentioned yet.
GridExprs(s) ==
    {Pin(v, c) : v \in Vars(s), c \in GridValues}
    \cup
    {Twice(v, c) : v \in Vars(s) \ DOMAIN s.var_to_constraints, c \in GridValues}

GridConstrain ==
    /\ solver.next_constraint < MaxConstraints
    /\ \E expr \in GridExprs(solver) :
          solver' = constrain_eq0(solver, expr)
    /\ last' = [NoCall EXCEPT !.op = "constrain_eq0", !.id = solver.next_constraint]
    /\ UNCHANGED <<log, other, rest>>

NextGrid ==
    \/ NewVar
    \/ GridConstrain
    \/ Solve

SpecGrid == Init /\ [][NextGrid]_vars

\* ------------------------------------------------- the order of registration

\* The constant terms of the constraints: 0, 0.05 and 0.1, as -value.
OrderConsts == {0, -5000000, -10000000}

\* v + c, and v + w + c or v - w + c for two different variables.
OrderExprs(s) ==
    {LinearExpr(<<<<1, v>>>>, c) : v \in Vars(s), c \in OrderConsts \ {0}}
    \cup
    {LinearExpr(<<<<1, e[1]>>, <<e[2], e[3]>>>>, c) :
        e \in {d \in Vars(s) \X {1, -1} \X Vars(s) : d[1] # d[3]},
        c \in OrderConsts \ {-5000000}}

\* A Solver with n variables.
RECURSIVE WithVars(_)
WithVars(n) == IF n = 0 THEN NewSolver ELSE new_var(WithVars(n - 1))

\* constrain_eq0 of calls[p[1]], calls[p[2]], ..., calls[p[k]] on s.
RECURSIVE Replay(_, _, _, _)
Replay(s, calls, p, k) ==
    IF k = 0 THEN s
    ELSE constrain_eq0(Replay(s, calls, p, k - 1), calls[p[k]].expr)

OrderConstrain ==
    /\ solver.next_constraint < MaxConstraints
    /\ last.op # "solve_both"
    /\ \E expr \in OrderExprs(solver) :
          /\ solver' = constrain_eq0(solver, expr)
          /\ log' = Append(log, Call(solver, expr))
    /\ last' = [NoCall EXCEPT !.op = "constrain_eq0", !.id = solver.next_constraint]
    /\ UNCHANGED <<other, rest>>

\* solve() on the Solver, and on a second Solver that was given the same
\* constraints in a permuted order.
SolveBoth ==
    /\ last.op # "solve_both"
    /\ log # <<>>
    /\ SolveIsExact(solver)
    /\ \E p \in Permutations(DOMAIN log) :
          LET replayed == Replay(WithVars(solver.next_var), log, p, Len(log))
          IN  /\ SolveIsExact(replayed)
              /\ other' = solve(replayed)
    /\ solver' = solve(solver)
    /\ last' = [NoCall EXCEPT !.op = "solve_both"]
    /\ UNCHANGED <<log, rest>>

NextOrder ==
    \/ NewVar
    \/ OrderConstrain
    \/ SolveBoth

SpecOrder == Init /\ [][NextOrder]_vars

\* ------------------------------------------------------ simplify on its own

\* The coefficients, variables, solved values (0, 0.05, 0.1) and constants
\* (0, -0.1) of the expressions and tables given to simplify.
SimpCoeffs == {0, 1, -1, 2}

SimpVars == 0..(MaxVars - 1)

SimpValues == {0, 5000000, 10000000}

SimpConstants == {0, -10000000}

SimpExprs ==
    {LinearExpr(q, c) :
        q \in UNION {[1..n -> SimpCoeffs \X SimpVars] : n \in 0..MaxEntries},
        c \in SimpConstants}

SimpTables == UNION {[d -> SimpValues] : d \in SUBSET SimpVars}

InitSimplify ==
    /\ SolverInit
    /\ Idle("simp")
    /\ \E e \in SimpExprs : \E tb \in SimpTables :
          simp = [NoSimp EXCEPT !.given = e, !.expr = e, !.table = tb]

\* expr.simplify(&table), on the expression the last call left.
SimplifyCall ==
    /\ simp.calls < 2
    /\ simp' = [simp EXCEPT !.expr = simplify(simp.expr, simp.table),
                            !.once = IF simp.calls = 0
                                     THEN simplify(simp.expr, simp.table) ELSE @,
                            !.calls = @ + 1]
    /\ UNCHANGED <<solver, last, log, other, bbox, output, export, editor, pass, gui, lsp, annot>>

NextSimplify == SimplifyCall

SpecSimplify == InitSimplify /\ [][NextSimplify]_vars

\* ------------------------------------------------------------- bbox_union

\* f64::min, f64::max
Min(a, b) == IF a <= b THEN a ELSE b

Max(a, b) == IF a >= b THEN a ELSE b

\* Rect<f64>, as bbox_union reads and builds it.
Rect(layer, x0, y0, x1, y1, id) ==
    [layer |-> layer, x0 |-> x0, y0 |-> y0, x1 |-> x1, y1 |-> y1, id |-> id]

\* bbox_union with (None, Some(r)) => None.
bbox_union_DropsSecond(b1, b2) ==
    IF b1 # None /\ b2 # None
    THEN Some(Rect(None, Min(b1[1].x0, b2[1].x0), Min(b1[1].y0, b2[1].y0),
                   Max(b1[1].x1, b2[1].x1), Max(b1[1].y1, b2[1].y1), b1[1].id))
    ELSE b1

\* fn bbox_union(b1, b2)
bbox_union(b1, b2) ==
    IF b1 # None /\ b2 # None
    THEN Some(Rect(None, Min(b1[1].x0, b2[1].x0), Min(b1[1].y0, b2[1].y0),
                   Max(b1[1].x1, b2[1].x1), Max(b1[1].y1, b2[1].y1), b1[1].id))
    ELSE IF b1 # None THEN b1
    ELSE IF b2 # None THEN b2
    ELSE None

\* The boxes given to bbox_union: any corner coordinates, with or without a
\* layer, from one of two sources.
Rects ==
    {Rect(l, c[1], c[2], c[3], c[4], i) :
        l \in {None, Some("met1")},
        c \in (0..MaxCoord) \X (0..MaxCoord) \X (0..MaxCoord) \X (0..MaxCoord),
        i \in {1, 2}}

OptRects == {None} \cup {Some(r) : r \in Rects}

InitBbox ==
    /\ SolverInit
    /\ Idle("bbox")
    /\ \E b1 \in OptRects : \E b2 \in OptRects :
          bbox = [NoBbox EXCEPT !.b1 = b1, !.b2 = b2]

BboxUnion ==
    /\ ~bbox.called
    /\ bbox' = [bbox EXCEPT !.out = bbox_union(bbox.b1, bbox.b2), !.called = TRUE]
    /\ UNCHANGED <<solver, last, log, other, simp, output, export, editor, pass, gui, lsp, annot>>

NextBbox == BboxUnion

SpecBbox == InitBbox /\ [][NextBbox]_vars

\* ------------------------------------------------------- the cell hierarchy

\* SolvedValue::Rect, SolvedValue::Instance { cell, .. }
RectObj == [kind |-> "Rect", cell |-> 0]

InstanceObj(c) == [kind |-> "Instance", cell |-> c]

CellIds == 1..MaxCells

\* The objects of one cell: up to MaxObjects rectangles and instances.
ObjectLists ==
    UNION {[1..n -> {RectObj} \cup {InstanceObj(c) : c \in CellIds}] : n \in 0..MaxObjects}

\* The compile outputs: Valid(data), ExecErrors with output Some(data) and
\* ExecErrors with output None; data has top cell 1, and bad holds the cells
\* whose root scope name does not read "cell <name>".
Outputs ==
    {[kind |-> k, cells |-> cs, bad |-> b, top |-> 1] :
        k \in {"Valid", "ExecErrors"}, cs \in [CellIds -> ObjectLists],
        b \in SUBSET CellIds}
    \cup
    {[kind |-> "ExecErrorsNone", cells |-> <<>>, bad |-> {}, top |-> 0]}

\* CompiledData::cell_to_gds(exporter, id), where ex is the exporter's
\* library ([result, structs]) and stack holds the cells whose cell_to_gds
\* is running.  The code recurses into i.cell whatever the stack holds: a
\* call for a cell that is on the stack repeats itself without end, which
\* the model records as the result "overflow" instead of following it.
RECURSIVE cell_to_gds(_, _, _, _)
RECURSIVE CellObjects(_, _, _, _, _, _)
cell_to_gds(data, ex, id, stack) ==
    IF id \in stack THEN [ex EXCEPT !.result = "overflow"]
    ELSE IF id \in data.bad THEN [ex EXCEPT !.result = "Err"]
    ELSE LET done == CellObjects(data, ex, id, 1, <<>>, stack \cup {id})
         IN  IF done.ex.result # "Ok" THEN done.ex
             ELSE [done.ex EXCEPT
                     !.structs = Append(@, [cell |-> id, elems |-> done.elems])]

\* The loop of cell_to_gds over cell.objects, from object k on: the elements
\* of the structure so far, and the exporter.
CellObjects(data, ex, id, k, elems, stack) ==
    IF k > Len(data.cells[id]) THEN [ex |-> ex, elems |-> elems]
    ELSE LET obj == data.cells[id][k]
         IN  IF obj.kind = "Rect"
             THEN CellObjects(data, ex, id, k + 1, Append(elems, "boundary"), stack)
             ELSE LET sub == cell_to_gds(data, ex, obj.cell, stack)
                  IN  IF sub.result # "Ok" THEN [ex |-> sub, elems |-> elems]
                      ELSE CellObjects(data, sub, id, k + 1,
                                       Append(elems, <<"sref", obj.cell>>), stack)

\* CompileOutput::to_gds: the structures of the library, whether the file
\* was written (saved says whether create_dir_all and save succeed), and
\* the Result.
to_gds(out, saved) ==
    LET start == [result |-> "Ok", structs |-> <<>>]
        ex == IF out.kind \in {"Valid", "ExecErrors"}
              THEN cell_to_gds(out, start, out.top, {})
              ELSE start
    IN  IF ex.result # "Ok"
        THEN [result |-> ex.result, structs |-> ex.structs, written |-> FALSE]
        ELSE IF saved
        THEN [result |-> "Ok", structs |-> ex.structs, written |-> TRUE]
        ELSE [result |-> "Err", structs |-> ex.structs, written |-> FALSE]

\* EditorState::process_scope(solved_cell, scope, state, parent) on the root
\* scope of cell id (every cell has its root scope only): st is
\* [result, scope_paths], path the scope path of the parent.  It recurses
\* into inst.cell whatever the stack holds, as cell_to_gds does.
RECURSIVE process_scope(_, _, _, _, _)
RECURSIVE ScopeObjects(_, _, _, _, _, _)
process_scope(data, st, id, path, stack) ==
    IF id \in stack THEN [st EXCEPT !.result = "overflow"]
    ELSE ScopeObjects(data,
                      [st EXCEPT !.scope_paths = MapInsert(@, id, Append(path, id))],
                      id, 1, Append(path, id), stack \cup {id})

\* The loop of process_scope over scope_info.emit, from object k on.
ScopeObjects(data, st, id, k, path, stack) ==
    IF k > Len(data.cells[id]) THEN st
    ELSE LET obj == data.cells[id][k]
         IN  IF obj.kind = "Rect"
             THEN ScopeObjects(data, st, id, k + 1, path, stack)
             ELSE LET sub == process_scope(data, st, obj.cell, path, stack)
                  IN  IF sub.result # "Ok" THEN sub
                      ELSE ScopeObjects(data, sub, id, k + 1, path, stack)

InitHierarchy ==
    /\ SolverInit
    /\ Idle("output")
    /\ output \in Outputs

ToGds ==
    /\ export.result = "none"
    /\ \E saved \in BOOLEAN : export' = to_gds(output, saved)
    /\ UNCHANGED <<solver, last, log, other, simp, bbox, output, editor, pass, gui, lsp, annot>>

\* EditorState::update, which takes a Valid output (unwrap_valid).
Update ==
    /\ editor.result = "none"
    /\ output.kind = "Valid"
    /\ editor' = process_scope(output, [result |-> "Ok", scope_paths |-> <<>>],
                               output.top, <<>>, {})
    /\ UNCHANGED <<solver, last, log, other, simp, bbox, output, export, pass, gui, lsp, annot>>

NextHierarchy ==
    \/ ToGds
    \/ Update

SpecHierarchy == InitHierarchy /\ [][NextHierarchy]_vars

\* ------------------------------------------------------ the variable-id pass

Names == {"x", "y"}

\* Expressions: a literal, a variable, and a block of statements in a scope
\* of its own.
ConstExpr == [kind |-> "Const", name |-> "", stmts |-> <<>>]

VarExpr(n) == [kind |-> "Var", name |-> n, stmts |-> <<>>]

ScopeExpr(ss) == [kind |-> "Scope", name |-> "", stmts |-> ss]

\* Statement::LetBinding { name, value }, Statement::Expr { value, .. }
LetBinding(n, e) == [kind |-> "LetBinding", name |-> n, value |-> e]

ExprStmt(e) == [kind |-> "Expr", name |-> "", value |-> e]

FlatExprs == {ConstExpr} \cup {VarExpr(n) : n \in Names}

StmtsOf(es) == {LetBinding(n, e) : n \in Names, e \in es} \cup {ExprStmt(e) : e \in es}

\* Blocks hold at most one statement, over the flat expressions.
PassExprs ==
    FlatExprs \cup {ScopeExpr(<<>>)} \cup {ScopeExpr(<<s>>) : s \in StmtsOf(FlatExprs)}

\* CompileInput: whether ast.decls has a cell named input.cell, the keys of
\* params, and the arguments and the statements of that cell.
PassInputs ==
    {[found |-> TRUE, params |-> ps, args |-> as, stmts |-> ss] :
        ps \in SUBSET Names,
        as \in UNION {[1..n -> Names] : n \in 0..MaxArgs},
        ss \in UNION {[1..n -> StmtsOf(PassExprs)] : n \in 0..MaxStmts}}
    \cup
    {[NoInput EXCEPT !.found = FALSE]}

\* VarIdPass::lookup: the innermost binding of name, from map k down.
RECURSIVE LookupFrom(_, _, _)
LookupFrom(bindings, name, k) ==
    IF k = 0 THEN None
    ELSE IF name \in DOMAIN bindings[k] THEN Some(bindings[k][name])
    ELSE LookupFrom(bindings, name, k - 1)

lookup(p, name) == LookupFrom(p.bindings, name, Len(p.bindings))

\* VarIdPass::alloc
alloc(p, name) ==
    [p EXCEPT !.bindings[Len(p.bindings)] = MapInsert(@, name, p.next_id),
              !.next_id = @ + 1]

\* A panic: the pass stops with the message, whatever it was doing.
Panic(p, msg) == [p EXCEPT !.panic = msg]

\* VarIdPass::dispatch_var_expr
dispatch_var_expr(p, name) ==
    IF lookup(p, name) = None
    THEN Panic(p, "used variable before declaration")
    ELSE [p EXCEPT !.refs = Append(@, lookup(p, name)[1])]

\* VarIdPass::enter_scope, VarIdPass::exit_scope
enter_scope(p) == [p EXCEPT !.bindings = Append(@, <<>>)]

exit_scope(p) == [p EXCEPT !.bindings = SubSeq(@, 1, Len(@) - 1)]

RECURSIVE transform_expr(_, _)
RECURSIVE transform_statement(_, _)
RECURSIVE TransformStmts(_, _, _)
\* AstTransformer::transform_expr: a variable is resolved by
\* dispatch_var_expr, a block is transformed between enter_scope and
\* exit_scope.
transform_expr(p, e) ==
    IF p.panic # "" THEN p
    ELSE IF e.kind = "Var" THEN dispatch_var_expr(p, e.name)
    ELSE IF e.kind = "Scope"
    THEN LET inner == TransformStmts(enter_scope(p), e.stmts, 1)
         IN  IF inner.panic # "" THEN inner ELSE exit_scope(inner)
    ELSE p

\* VarIdPass::transform_statement: a LetBinding allocates its name and then
\* transforms its value.
transform_statement(p, s) ==
    IF p.panic # "" THEN p
    ELSE IF s.kind = "LetBinding" THEN transform_expr(alloc(p, s.name), s.value)
    ELSE transform_expr(p, s.value)

\* The statements of a list in order, from statement k on.
TransformStmts(p, ss, k) ==
    IF k > Len(ss) \/ p.panic # "" THEN p
    ELSE TransformStmts(transform_statement(p, ss[k]), ss, k + 1)

\* VarIdPass::transform_arg_decl
transform_arg_decl(p, name) ==
    IF p.panic # "" THEN p
    ELSE IF lookup(p, name) # None
    THEN Panic(p, "argument should not already be declared")
    ELSE alloc(p, name)

RECURSIVE TransformArgs(_, _, _)
TransformArgs(p, as, k) ==
    IF k > Len(as) \/ p.panic # "" THEN p
    ELSE TransformArgs(transform_arg_decl(p, as[k]), as, k + 1)

\* The loop of execute over input.params, a HashMap: its keys are distinct
\* and the bindings are empty, so the assertion "no duplicate parameters"
\* holds every time.
RECURSIVE AllocParams(_, _)
AllocParams(p, names) ==
    IF names = {} THEN p
    ELSE LET n == CHOOSE m \in names : TRUE
         IN  AllocParams(alloc(p, n), names \ {n})

\* VarIdPass::execute: the top cell, the parameters, the statements and
\* then the arguments.
execute(p, input) ==
    IF ~input.found THEN Panic(p, "top cell not found")
    ELSE TransformArgs(TransformStmts(AllocParams(p, input.params), input.stmts, 1),
                       input.args, 1)

InitPass ==
    /\ SolverInit
    /\ Idle("pass")
    /\ \E input \in PassInputs : pass = [NoPass EXCEPT !.input = input]

Execute ==
    /\ ~pass.done
    /\ pass' = [pass EXCEPT !.state = execute(NewVarIdPass, pass.input),
                            !.done = TRUE]
    /\ UNCHANGED <<solver, last, log, other, simp, bbox, output, export, editor, gui, lsp, annot>>

NextPass == Execute

SpecPass == InitPass /\ [][NextPass]_vars

\* ------------------------------------------------------- the editor window

\* The compile outputs delivered to the editor: the name of the top cell's
\* root scope, the names of its child scopes, and the layers.
GuiOutputs ==
    [root : {"top", "alt"}, children : SUBSET {"a"}, layers : SUBSET {"met1", "met2"}]

\* The keys process_scope leaves in ProcessScopeState.state for an output.
ScopePaths(out) == {<<out.root>>} \cup {<<out.root, c>> : c \in out.children}

\* EditorState::update: the layers are replaced and a selected layer that is
\* not among them is dropped; selected_scope is kept when the state map of
\* the old cell has it, and is the root scope path otherwise.
update(g, out) ==
    [g EXCEPT
        !.layers = out.layers,
        !.selected_layer = IF g.selected_layer # None /\ g.selected_layer[1] \in out.layers
                           THEN @ ELSE None,
        !.cell = Some([state |-> ScopePaths(out),
                       selected_scope |->
                           IF g.cell # None /\ g.cell[1].selected_scope \in g.cell[1].state
                           THEN g.cell[1].selected_scope
                           ELSE <<out.root>>])]

\* LayoutCanvas::cancel with its last arm left out.
cancel_ClearsOnly(tool) ==
    IF tool.kind = "DrawRect" /\ tool.p0 THEN [tool EXCEPT !.p0 = FALSE]
    ELSE IF tool.kind = "DrawDim" /\ tool.edges # 0 THEN [tool EXCEPT !.edges = 0]
    ELSE IF tool.kind = "Select" THEN [tool EXCEPT !.selected_obj = FALSE]
    ELSE tool

\* LayoutCanvas::cancel
cancel(tool) ==
    IF tool.kind = "DrawRect" /\ tool.p0 THEN [tool EXCEPT !.p0 = FALSE]
    ELSE IF tool.kind = "DrawDim" /\ tool.edges # 0 THEN [tool EXCEPT !.edges = 0]
    ELSE IF tool.kind = "Select" THEN [tool EXCEPT !.selected_obj = FALSE]
    ELSE ToolDefault

\* LayoutCanvas::on_left_mouse_down: hit says whether the click is on a
\* rectangle (Select) or on an edge that can be picked (DrawDim), span
\* whether the language server answers draw_dimension with a span.
on_left_mouse_down(g, hit, span) ==
    LET tool == g.tool
    IN  IF tool.kind = "DrawRect"
        THEN IF tool.p0 THEN [tool EXCEPT !.p0 = FALSE]
             ELSE IF g.selected_layer # None THEN [tool EXCEPT !.p0 = TRUE]
             ELSE tool
        ELSE IF tool.kind = "DrawDim"
        THEN LET picked == tool.edges < 2 /\ hit /\ g.cell # None
                 entry == IF tool.edges < 2
                          THEN ~picked /\ tool.edges # 0
                          ELSE TRUE
             IN  IF picked THEN [tool EXCEPT !.edges = @ + 1]
                 ELSE IF entry /\ g.cell # None /\ span
                 THEN Tool("EditDim", FALSE, 0, FALSE)
                 ELSE tool
        ELSE IF tool.kind = "Select" THEN [tool EXCEPT !.selected_obj = hit]
        ELSE tool

InitGui ==
    /\ SolverInit
    /\ Idle("gui")
    /\ gui = NoGui

GuiUpdate ==
    /\ \E out \in GuiOutputs : gui' = [update(gui, out) EXCEPT !.cancels = 0]
    /\ UNCHANGED <<solver, last, log, other, simp, bbox, output, export, editor, pass, lsp, annot>>

\* A click on a scope of the hierarchy side bar.
SelectScope ==
    /\ gui.cell # None
    /\ \E path \in gui.cell[1].state :
          gui' = [gui EXCEPT !.cell[1].selected_scope = path,
                             !.tool = ToolDefault, !.cancels = 0]
    /\ UNCHANGED <<solver, last, log, other, simp, bbox, output, export, editor, pass, lsp, annot>>

\* A click on a layer of the layer side bar.
SelectLayer ==
    /\ \E name \in gui.layers :
          gui' = [gui EXCEPT !.selected_layer = Some(name), !.cancels = 0]
    /\ UNCHANGED <<solver, last, log, other, simp, bbox, output, export, editor, pass, lsp, annot>>

LeftMouseDown ==
    /\ \E hit \in BOOLEAN : \E span \in BOOLEAN :
          gui' = [gui EXCEPT !.tool = on_left_mouse_down(gui, hit, span), !.cancels = 0]
    /\ UNCHANGED <<solver, last, log, other, simp, bbox, output, export, editor, pass, lsp, annot>>

\* LayoutCanvas::draw_rect and LayoutCanvas::draw_dim, the tool keys.
DrawRectKey ==
    /\ gui' = [gui EXCEPT !.tool = IF @.kind = "DrawRect" THEN @
                                   ELSE Tool("DrawRect", FALSE, 0, FALSE),
                          !.cancels = 0]
    /\ UNCHANGED <<solver, last, log, other, simp, bbox, output, export, editor, pass, lsp, annot>>

DrawDimKey ==
    /\ gui' = [gui EXCEPT !.tool = IF @.kind = "DrawDim" THEN @
                                   ELSE Tool("DrawDim", FALSE, 0, FALSE),
                          !.cancels = 0]
    /\ UNCHANGED <<solver, last, log, other, simp, bbox, output, export, editor, pass, lsp, annot>>

Cancel ==
    /\ gui' = [gui EXCEPT !.tool = cancel(@),
                          !.cancels = IF @ < 2 THEN @ + 1 ELSE 2,
                          !.held = IF gui.cancels = 0 THEN gui.tool ELSE @]
    /\ UNCHANGED <<solver, last, log, other, simp, bbox, output, export, editor, pass, lsp, annot>>

NextGui ==
    \/ GuiUpdate
    \/ SelectScope
    \/ SelectLayer
    \/ LeftMouseDown
    \/ DrawRectKey
    \/ DrawDimKey
    \/ Cancel

SpecGui == InitGui /\ [][NextGui]_vars

\* ------------------------------------------------------ the language server

\* LspServer::draw_rect and LspServer::add_eq_constraint, which differ in
\* the text they insert (what): known says whether the tree of the file
\* has a scope for scope_span.  doc is a clone of the editor's document, or
\* the file on disk when the editor has none; the buffer is then compared
\* with doc, the edit is applied to the document and sent to the editor.
PlaceEdit(l, what, known) ==
    LET doc == IF l.buffer # None THEN l.buffer[1] ELSE l.disk
        idle == [l EXCEPT !.message = FALSE, !.handled = "scope"]
    IN  IF l.ast = None \/ ~known THEN [idle EXCEPT !.handled = "no scope"]
        ELSE IF l.buffer # None /\ l.buffer[1] # doc
        THEN [idle EXCEPT !.message = TRUE]
        ELSE [idle EXCEPT
                !.buffer = IF l.buffer # None
                           THEN Some(Text(doc.base, doc.inserted + 1)) ELSE None,
                !.edits = Append(@, [what |-> what, on |-> doc, spans |-> l.ast[1]])]

draw_rect(l, known) == PlaceEdit(l, "rect", known)

add_eq_constraint(l, known) == PlaceEdit(l, "eq", known)

InitLsp ==
    /\ SolverInit
    /\ Idle("lsp")
    /\ lsp = NoLsp

\* The user types in the editor: editor_files has the new text.
DidChange ==
    /\ \E base \in 0..MaxTexts :
          /\ lsp.buffer # Some(Text(base, 0))
          /\ lsp' = [lsp EXCEPT !.buffer = Some(Text(base, 0)), !.handled = "no"]
    /\ UNCHANGED <<solver, last, log, other, simp, bbox, output, export, editor, pass, gui, annot>>

\* The editor saves its buffer.
Save ==
    /\ lsp.buffer # None
    /\ lsp' = [lsp EXCEPT !.disk = lsp.buffer[1], !.handled = "no"]
    /\ UNCHANGED <<solver, last, log, other, simp, bbox, output, export, editor, pass, gui, annot>>

\* The saved file is parsed: ast has its tree, with the spans of its scopes.
Parse ==
    /\ lsp' = [lsp EXCEPT !.ast = Some(lsp.disk), !.handled = "no"]
    /\ UNCHANGED <<solver, last, log, other, simp, bbox, output, export, editor, pass, gui, annot>>

DrawRect ==
    /\ Len(lsp.edits) < MaxEdits
    /\ \E known \in BOOLEAN : lsp' = draw_rect(lsp, known)
    /\ UNCHANGED <<solver, last, log, other, simp, bbox, output, export, editor, pass, gui, annot>>

AddEqConstraint ==
    /\ Len(lsp.edits) < MaxEdits
    /\ \E known \in BOOLEAN : lsp' = add_eq_constraint(lsp, known)
    /\ UNCHANGED <<solver, last, log, other, simp, bbox, output, export, editor, pass, gui, annot>>

NextLsp ==
    \/ DidChange
    \/ Save
    \/ Parse
    \/ DrawRect
    \/ AddEqConstraint

SpecLsp == InitLsp /\ [][NextLsp]_vars

\* ------------------------------------------------- the scope annotation pass

\* format!("scope{}", n), and the other names a source annotates scopes with.
ScopeName(n) == <<"scope", n>>

\* A scope or an if-expression: its annotation (None or Some(name)) and the
\* scopes and if-expressions directly inside it.
Item(kind, annotation, body) ==
    [kind |-> kind, annotation |-> annotation, body |-> body]

\* The bodies the pass is run on: up to MaxItems items, each holding at most
\* one item.
AnnotInputs ==
    LET notes == {None} \cup {Some(ScopeName(n)) : n \in 0..1} \cup {Some(<<"a", 0>>)}
        leaves == {Item(k, a, <<>>) : k \in {"Scope", "If"}, a \in notes}
        items == {Item(k, a, b) : k \in {"Scope", "If"}, a \in notes,
                                  b \in {<<>>} \cup {<<l>> : l \in leaves}}
    IN  UNION {[1..n -> items] : n \in 0..MaxItems}

\* ScopeAnnotationPass::new
NewAnnotationPass == [assigned_names |-> <<{}>>, ids |-> <<0>>, edits |-> <<>>, named |-> <<>>]

\* The loop of dispatch_if_expr and of transform_expr: the first scopeN,
\* counting from the id of the enclosing scope, that is not assigned.
RECURSIVE FreshName(_, _)
FreshName(names, id) ==
    IF ScopeName(id) \in names THEN FreshName(names, id + 1)
    ELSE [name |-> ScopeName(id), next |-> id + 1]

\* What dispatch_if_expr and the Expr::Scope arm of transform_expr do with
\* an annotation: an explicit name is inserted into the names of the
\* enclosing scope, a missing one is generated and an edit is pushed.
AssignName(p, annotation) ==
    LET top == Len(p.assigned_names)
        fresh == FreshName(p.assigned_names[top], p.ids[top])
    IN  IF annotation # None
        THEN [pass |-> [p EXCEPT !.assigned_names[top] = @ \cup {annotation[1]}],
              name |-> annotation[1]]
        ELSE [pass |-> [p EXCEPT !.assigned_names[top] = @ \cup {fresh.name},
                                 !.ids[top] = fresh.next,
                                 !.edits = Append(@, fresh.name)],
              name |-> fresh.name]

\* The items of a scope from item k on: a scope is named and then entered
\* (transform_expr), an if-expression is named after its branches have been
\* transformed (dispatch_if_expr); enter_scope pushes a set of names and an
\* id, exit_scope pops them.  named lists the name of every item with the
\* names given inside it.
RECURSIVE AnnotateItems(_, _, _)
AnnotateItems(p, items, k) ==
    IF k > Len(items) THEN p
    ELSE LET it == items[k]
             first == IF it.kind = "Scope" THEN AssignName(p, it.annotation)
                      ELSE [pass |-> p, name |-> None]
             entered == [first.pass EXCEPT !.assigned_names = Append(@, {}),
                                           !.ids = Append(@, 0),
                                           !.named = <<>>]
             inside == AnnotateItems(entered, it.body, 1)
             exited == [inside EXCEPT
                          !.assigned_names = SubSeq(@, 1, Len(@) - 1),
                          !.ids = SubSeq(@, 1, Len(@) - 1),
                          !.named = first.pass.named]
             second == IF it.kind = "If" THEN AssignName(exited, it.annotation)
                       ELSE [pass |-> exited, name |-> first.name]
         IN  AnnotateItems([second.pass EXCEPT
                               !.named = Append(@, [name |-> second.name,
                                                    inner |-> inside.named])],
                           items, k + 1)

InitAnnot ==
    /\ SolverInit
    /\ Idle("annot")
    /\ \E items \in AnnotInputs : annot = [NoAnnot EXCEPT !.input = items]

\* ScopeAnnotationPass::execute on a cell with the body of the input.
Annotate ==
    /\ ~annot.done
    /\ LET out == AnnotateItems(NewAnnotationPass, annot.input, 1)
       IN  annot' = [annot EXCEPT !.named = out.named, !.edits = out.edits,
                                  !.done = TRUE]
    /\ UNCHANGED <<solver, last, log, other, simp, bbox, output, export, editor, pass, gui, lsp>>

NextAnnot == Annotate

SpecAnnot == InitAnnot /\ [][NextAnnot]_vars

\* ------------------------------------------------------------ properties

\* The variables of an expression that are unsolved in s, each counted once
\* however many entries it has.
FreeVars(s, expr) ==
    {a[2] : a \in Range(expr.coeffs)} \cap Range(s.unsolved_vars)

\* C1: every variable new_var returned is in exactly one of unsolved_vars and
\* solved_vars, after any sequence of new_var, constrain_eq0, solve and
\* force_solution calls.
C1_ExactlyOneOfSolvedUnsolved ==
    \A v \in Vars(solver) :
        (v \in Range(solver.unsolved_vars)) # (v \in DOMAIN solver.solved_vars)

C1_Witness ==
    /\ last.op = "solve"
    /\ DOMAIN solver.solved_vars # {}
    /\ solver.unsolved_vars # <<>>

\* The variables a set of constraints gives one at a time: a constraint
\* whose variables are all in done but one gives that one.
RECURSIVE Chained(_, _)
Chained(calls, done) ==
    LET more == {v \in Vars(solver) \ done :
                    \E i \in DOMAIN calls : VarsOf(calls[i].expr) \ done = {v}}
    IN  IF more = {} THEN done ELSE Chained(calls, done \cup more)

\* The value of an expression at the solved values.
ValueAt(s, expr) ==
    expr.constant
    + SumSeq(Listed([k \in DOMAIN expr.coeffs |->
                        expr.coeffs[k][1] * s.solved_vars[expr.coeffs[k][2]]]))

\* C2: with constrain_eq0 alone, every variable of a chain is solved, to a
\* value that satisfies its constraints exactly, and every variable no
\* constraint mentions is unsolved (as long as the constraints agree).
C2_ChainSolvedExactly ==
    solver.inconsistent_constraints = {} =>
        /\ \A v \in Chained(log, {}) : is_solved(solver, v)
        /\ \A i \in DOMAIN log :
              VarsOf(log[i].expr) \subseteq DOMAIN solver.solved_vars =>
                  ValueAt(solver, log[i].expr) = 0
        /\ \A v \in Vars(solver) :
              (\A i \in DOMAIN log : v \notin VarsOf(log[i].expr)) =>
                  v \in Range(solver.unsolved_vars)

\* C3: x - 5 = 0 registered for an unsolved x and x - 6 = 0 registered
\* after it: the second id is in inconsistent_constraints, the first is not,
\* and value_of(x) is 5.
C3_SecondValueIsInconsistent ==
    \A i \in DOMAIN log : \A j \in DOMAIN log : \A x \in Vars(solver) :
        /\ i < j
        /\ log[i].expr = Pin(x, 500000000)
        /\ x \in log[i].unsolved
        /\ log[j].expr = Pin(x, 600000000)
        => /\ log[j].id \in solver.inconsistent_constraints
           /\ log[i].id \notin solver.inconsistent_constraints
           /\ value_of(solver, x) = Some(500000000)

\* x - 5 = 0, then x - 6 = 0, then a third constraint.
C3_Witness ==
    /\ Len(log) = 3
    /\ \E x \in Vars(solver) :
          /\ log[1].expr = Pin(x, 500000000)
          /\ log[2].expr = Pin(x, 600000000)

\* C4: once a variable has a value, every later call leaves it solved with
\* the same value within EPSILON.
C4_SolvedValueNeverChanges ==
    [][\A v \in DOMAIN solver.solved_vars :
          /\ v \in DOMAIN solver'.solved_vars
          /\ relative_eq(solver.solved_vars[v], solver'.solved_vars[v], EPSILON)]_vars

\* A conflicting constraint has been registered against a solved variable
\* and solve() has run after it.
C4_Witness ==
    /\ last.op = "solve"
    /\ solver.inconsistent_constraints # {}
    /\ DOMAIN solver.solved_vars # {}
    /\ solver.unsolved_vars # <<>>

\* C5 as claimed: when constrain_eq0 returns, the work-list is empty and no
\* stored constraint has exactly one free variable, a variable with several
\* entries in the expression counting once.
C5_NoSingleFreeVariable ==
    last.op = "constrain_eq0" =>
        /\ solver.back_substitute_stack = <<>>
        /\ \A i \in DOMAIN solver.constraints :
              Cardinality(FreeVars(solver, solver.constraints[i].expr)) # 1

\* C5 as amended: when constrain_eq0 returns, the work-list is empty, no
\* stored constraint has exactly one coefficient entry, and every stored
\* entry is a non-zero coefficient of an unsolved variable (solved values
\* have been substituted into every constraint that mentioned them).
C5_NoSingleEntry ==
    last.op = "constrain_eq0" =>
        /\ solver.back_substitute_stack = <<>>
        /\ \A i \in DOMAIN solver.constraints :
              /\ Len(solver.constraints[i].expr.coeffs) # 1
              /\ \A a \in Range(solver.constraints[i].expr.coeffs) :
                    a[1] # 0 /\ a[2] \in Range(solver.unsolved_vars)

\* constrain_eq0 has solved a variable and left stored a constraint whose
\* entries all name one unsolved variable.
C5_Witness ==
    /\ last.op = "constrain_eq0"
    /\ DOMAIN solver.solved_vars # {}
    /\ \E i \in DOMAIN solver.constraints :
          /\ Len(solver.constraints[i].expr.coeffs) = 2
          /\ Cardinality(FreeVars(solver, solver.constraints[i].expr)) = 1

\* C6: after constrain_eq0 or solve returns, no constraint that references
\* zero unsolved variables is still stored.
C6_NoConsumedConstraintStored ==
    last.op \in {"constrain_eq0", "solve"} =>
        \A i \in DOMAIN solver.constraints :
            FreeVars(solver, solver.constraints[i].expr) # {}

\* The constraints recorded in calls, stored as they were given, over n
\* unsolved variables.
Given(calls, n) ==
    [WithVars(n) EXCEPT
        !.constraints = Listed([i \in DOMAIN calls |->
                            [id |-> calls[i].id, expr |-> calls[i].expr]])]

\* The constraints determine every one of the n variables, and the values
\* they determine satisfy every constraint exactly.
DeterminesAll(calls, n) ==
    /\ n > 0
    /\ calls # <<>>
    /\ LET g == Given(calls, n)
           svd == Svd(g)
           b == VectorB(g)
       IN  /\ \A j \in 1..n : Determined(svd, j, n)
           /\ SolExact(g)
           /\ \A i \in DOMAIN calls :
                 calls[i].expr.constant
                 + SumSeq(Listed([k \in DOMAIN calls[i].expr.coeffs |->
                       calls[i].expr.coeffs[k][1]
                       * Sol(svd, calls[i].expr.coeffs[k][2] + 1, n, b)])) = 0

\* C7: for constraints that determine every variable, solve() after
\* registering them in any permuted order gives every variable the same
\* value_of within EPSILON.
C7_OrderIndependent ==
    (last.op = "solve_both" /\ DeterminesAll(log, solver.next_var)) =>
        \A v \in Vars(solver) :
            /\ is_solved(solver, v) = is_solved(other, v)
            /\ is_solved(solver, v) /\ is_solved(other, v) =>
                  relative_eq(solver.solved_vars[v], other.solved_vars[v], EPSILON)

\* C8: force_solution terminates with every variable solved, each iteration
\* of its loop solves at least one variable, and it makes at most as many
\* iterations as there were unsolved variables when it was called.
C8_ForceSolutionTerminates ==
    last.op = "force_solution" =>
        /\ fully_solved(solver)
        /\ last.progress
        /\ last.iterations <= last.entry

C8_Witness ==
    /\ last.op = "force_solution"
    /\ last.entry >= 2
    /\ last.iterations >= 2
    /\ solver.next_constraint > last.iterations

\* The grid point within EPSILON of x, if there is one.
NearGrid(x) ==
    LET m == x % ROUND_STEP
    IN  IF m <= EPSILON THEN Some(x - m)
        ELSE IF m >= ROUND_STEP - EPSILON THEN Some(x - m + ROUND_STEP)
        ELSE None

\* C9 as claimed: a variable solved to 10.00003 is stored as 10.0 and is
\* not in invalid_rounding, and a variable solved to 10.05 is in
\* invalid_rounding.
C9_SmallOffsetNotFlagged ==
    \A v \in DOMAIN solver.solved_vars :
        /\ solver.unrounded[v] = 1000003000 =>
              solver.solved_vars[v] = 1000000000 /\ v \notin solver.invalid_rounding
        /\ solver.unrounded[v] = 1005000000 => v \in solver.invalid_rounding

\* C9 as amended: a variable solved to a value within EPSILON of a grid
\* point is stored as that grid point and is not in invalid_rounding; a
\* variable solved to any other value, 10.00003 and 10.05 among them, is in
\* invalid_rounding.
C9_FlaggedBeyondEpsilon ==
    \A v \in DOMAIN solver.solved_vars :
        IF NearGrid(solver.unrounded[v]) # None
        THEN /\ Some(solver.solved_vars[v]) = NearGrid(solver.unrounded[v])
             /\ v \notin solver.invalid_rounding
        ELSE v \in solver.invalid_rounding

\* solve() has solved one variable to 10.00003 and constrain_eq0 has solved
\* another to 9.99999999.
C9_Witness ==
    /\ last.op = "solve"
    /\ \E v \in DOMAIN solver.solved_vars : \E w \in DOMAIN solver.solved_vars :
          /\ solver.unrounded[v] = 1000003000
          /\ solver.solved_vars[v] = 1000003000
          /\ solver.unrounded[w] = 999999999

\* C10: a variable whose value, when it was solved, differed from its grid
\* point beyond EPSILON is in invalid_rounding and keeps the unrounded value.
C10_FlaggedNotSnapped ==
    \A v \in DOMAIN solver.solved_vars :
        relative_ne(solver.unrounded[v], round(solver.unrounded[v]), EPSILON) =>
            /\ v \in solver.invalid_rounding
            /\ solver.solved_vars[v] = solver.unrounded[v]

\* The vectors z with a z = 0, among those with small integer components.
NullVectors(a, n) ==
    {z \in [1..n -> -2..2] :
        \A i \in DOMAIN a : SumSeq(Listed([j \in 1..n |-> a[i][j] * z[j]])) = 0}

\* The stored constraints of s determine v: no solution of them can be moved
\* along v.
UniquelyDetermined(s, v) ==
    /\ IndexOf(s.unsolved_vars, v) # 0
    /\ \A z \in NullVectors(MatrixA(s), Len(s.unsolved_vars)) :
          z[IndexOf(s.unsolved_vars, v)] = 0

\* The only stored constraint of s is w - v - 0.1 = 0, for two different
\* unsolved variables v and w.
OnlyOffset(s, v, w) ==
    /\ v # w
    /\ Len(s.constraints) = 1
    /\ s.constraints[1].expr = LinearExpr(<<<<1, w>>, <<-1, v>>>>, -10000000)
    /\ ~is_solved(s, v)
    /\ ~is_solved(s, w)

\* C11: solve() commits exactly the unsolved variables that the stored
\* constraints determine; with only x1 - x0 = 0.1 stored, solve() leaves x0
\* and x1 unsolved and the constraint stored, and a constrain_eq0 that then
\* solves x0 to c solves x1 to c + 0.1.
C11_CommitsExactlyDetermined ==
    [][/\ last'.op = "solve" =>
            /\ \A v \in Range(solver.unsolved_vars) :
                  is_solved(solver', v) <=> UniquelyDetermined(solver, v)
            /\ \A v \in Vars(solver) : \A w \in Vars(solver) :
                  OnlyOffset(solver, v, w) => OnlyOffset(solver', v, w)
       /\ last'.op = "constrain_eq0" =>
            \A v \in Vars(solver) : \A w \in Vars(solver) :
                (OnlyOffset(solver, v, w) /\ is_solved(solver', v)
                 /\ solver'.constraints = <<>>) =>
                    /\ is_solved(solver', w)
                    /\ solver'.solved_vars[v] = solver'.unrounded[v]
                    /\ solver'.solved_vars[w] = solver'.unrounded[v] + 10000000]_vars

\* The value of an expression at the values of table.
ValueIn(expr, table) ==
    expr.constant
    + SumSeq(Listed([k \in DOMAIN expr.coeffs |->
                        expr.coeffs[k][1] * table[expr.coeffs[k][2]]]))

\* C12 as claimed: two stored constraints with the same coefficients of two
\* variables and constants further apart than both tolerances cannot both have a residual
\* within tolerance, so after solve() at least one of them is in
\* inconsistent_constraints, whether or not solve() committed their
\* variables.
C12_ContradictionReported ==
    [][last'.op = "solve" =>
         \A i \in DOMAIN solver.constraints : \A j \in DOMAIN solver.constraints :
             (/\ solver.constraints[i].expr.coeffs = solver.constraints[j].expr.coeffs
              /\ Cardinality(VarsOf(solver.constraints[i].expr)) = 2
              /\ Abs(solver.constraints[i].expr.constant
                     - solver.constraints[j].expr.constant) > 2 * EPSILON)
             => \/ solver.constraints[i].id \in solver'.inconsistent_constraints
                \/ solver.constraints[j].id \in solver'.inconsistent_constraints]_vars

\* C12 as amended: after solve(), every constraint that was stored and has
\* all of its variables solved is in inconsistent_constraints if its value
\* at the values solve() computed is beyond EPSILON, and every stored
\* constraint that still has an unsolved variable is left as it was: stored
\* and not added to inconsistent_constraints.
C12_ResidualOfCommittedReported ==
    [][last'.op = "solve" =>
         \A i \in DOMAIN solver.constraints :
             LET c == solver.constraints[i]
             IN  IF VarsOf(c.expr) \subseteq DOMAIN solver'.solved_vars
                 THEN relative_ne(ValueIn(c.expr, solver'.unrounded), 0, EPSILON)
                          => c.id \in solver'.inconsistent_constraints
                 ELSE /\ c.id \notin solver'.inconsistent_constraints
                      /\ \E k \in DOMAIN solver'.constraints :
                            solver'.constraints[k].id = c.id]_vars

\* solve() has solved a variable from two constraints that disagree, and
\* both are in inconsistent_constraints.
C12_Witness ==
    /\ last.op = "solve"
    /\ solver.next_constraint = 2
    /\ solver.inconsistent_constraints = {0, 1}
    /\ \E v \in DOMAIN solver.solved_vars :
          solver.solved_vars[v] # round(solver.solved_vars[v])

\* C13: no call panics: every entry of every stored constraint has a
\* non-zero coefficient (what back-substitution divides by) and names an
\* unsolved variable (what solve() unwraps the column index of).
C13_NeverPanics ==
    /\ ~solver.panicked
    /\ \A i \in DOMAIN solver.constraints :
          \A a \in Range(solver.constraints[i].expr.coeffs) :
              a[1] # 0 /\ IndexOf(solver.unsolved_vars, a[2]) # 0

\* solve() has built its matrix and solved a variable from three
\* constraints that conflict.
C13_Witness ==
    /\ last.op = "solve"
    /\ solver.next_constraint = 3
    /\ solver.inconsistent_constraints # {}
    /\ \E v \in DOMAIN solver.solved_vars :
          solver.solved_vars[v] # round(solver.solved_vars[v])

\* C14: simplify twice with the same table leaves the coefficient list and
\* the constant that simplify once left.
C14_SimplifyIdempotent ==
    simp.calls = 2 =>
        /\ simp.expr.coeffs = simp.once.coeffs
        /\ simp.expr.constant = simp.once.constant

\* simplify has run twice on an expression of which the first call dropped
\* a zero coefficient, substituted a solved variable and kept an entry.
C14_Witness ==
    /\ simp.calls = 2
    /\ \E a \in Range(simp.given.coeffs) : a[1] = 0
    /\ \E a \in Range(simp.given.coeffs) :
          a[1] # 0 /\ a[2] \in DOMAIN simp.table /\ simp.table[a[2]] # 0
    /\ simp.once.constant # simp.given.constant

\* C15: bbox_union(None, None) is None, and bbox_union of one box and None,
\* in either order, is that box.
C15_UnionWithNone ==
    bbox.called =>
        /\ (bbox.b1 = None /\ bbox.b2 = None) => bbox.out = None
        /\ (bbox.b1 # None /\ bbox.b2 = None) => bbox.out = bbox.b1
        /\ (bbox.b1 = None /\ bbox.b2 # None) => bbox.out = bbox.b2

\* bbox_union has been given None and a box that has a layer.
C15_Witness ==
    /\ bbox.called
    /\ bbox.b1 = None
    /\ bbox.b2 # None
    /\ bbox.b2[1].layer # None
    /\ bbox.out # None

\* The cells reachable from the cells of seen through instances.
RECURSIVE Reachable(_, _)
Reachable(data, seen) ==
    LET step == {c \in CellIds \ seen :
                    \E d \in seen : \E k \in DOMAIN data.cells[d] :
                        data.cells[d][k] = InstanceObj(c)}
    IN  IF step = {} THEN seen ELSE Reachable(data, seen \cup step)

\* C16: a to_gds that wrote the file of a Valid output wrote exactly one
\* structure for every cell reachable from the top cell.
C16_OneStructPerCell ==
    (output.kind = "Valid" /\ export.written) =>
        \A c \in CellIds :
            Cardinality({k \in DOMAIN export.structs : export.structs[k].cell = c})
                = IF c \in Reachable(output, {output.top}) THEN 1 ELSE 0

\* C17: to_gds on an output that is not Valid returns an error and writes
\* no file.
C17_InvalidOutputNotExported ==
    (export.result # "none" /\ output.kind # "Valid") =>
        export.result = "Err" /\ ~export.written

\* C20: cell_to_gds and process_scope return on every CompiledData.
C20_TraversalsTerminate ==
    export.result # "overflow" /\ editor.result # "overflow"

\* Whether the statements of ss from statement k on, read with the names of
\* bound declared, hold a reference to a name no parameter and no earlier
\* let of an enclosing scope binds.
RECURSIVE Undeclared(_, _, _)
Undeclared(ss, k, bound) ==
    IF k > Len(ss) THEN FALSE
    ELSE LET s == ss[k]
             inValue == IF s.value.kind = "Var" THEN s.value.name \notin bound
                        ELSE IF s.value.kind = "Scope"
                        THEN Undeclared(s.value.stmts, 1, bound)
                        ELSE FALSE
         IN  \/ inValue
             \/ Undeclared(ss, k + 1,
                           IF s.kind = "LetBinding" THEN bound \cup {s.name} ELSE bound)

\* C18: the pass rejects as "used variable before declaration" every cell
\* body with a variable reference that no parameter and no earlier let of an
\* enclosing scope binds, the x in the value of `let x = x` included.
C18_UndeclaredRejected ==
    (pass.done /\ pass.input.found
        /\ Undeclared(pass.input.stmts, 1, pass.input.params)) =>
        pass.state.panic = "used variable before declaration"

\* C19: a missing top cell, an undeclared name and a duplicate parameter or
\* argument name never end the pass in a panic or a failed assertion.
C19_NoPanic ==
    pass.done => pass.state.panic = ""

\* The ids the references of ss get, from statement k on, when each one is
\* read in the environment of its place: env maps the names bound there to
\* their ids, a let binds its name after its value, and a block's lets end
\* with the block.  The result is [refs, env, next].
RECURSIVE Lexical(_, _, _)
Lexical(ss, k, r) ==
    IF k > Len(ss) THEN r
    ELSE LET s == ss[k]
             v == s.value
             own == IF s.kind = "LetBinding" THEN 1 ELSE 0
             after == IF v.kind = "Var" /\ v.name \in DOMAIN r.env
                      THEN [r EXCEPT !.refs = Append(@, r.env[v.name]), !.next = @ + own]
                      ELSE IF v.kind = "Scope"
                      THEN [r EXCEPT
                              !.refs = Lexical(v.stmts, 1, [r EXCEPT !.next = @ + own]).refs,
                              !.next = Lexical(v.stmts, 1, [r EXCEPT !.next = @ + own]).next]
                      ELSE [r EXCEPT !.next = @ + own]
         IN  Lexical(ss, k + 1,
                     IF s.kind = "LetBinding"
                     THEN [after EXCEPT !.env = MapInsert(@, s.name, r.next)]
                     ELSE after)

\* C21: a pass that ends without a panic has resolved every reference to
\* the innermost binding of its name that encloses it, a let of a block
\* shadowing an outer binding inside the block only, and is back at the
\* binding depth it started with.
C21_InnermostBinding ==
    (pass.done /\ pass.input.found /\ pass.state.panic = ""
        /\ ~Undeclared(pass.input.stmts, 1, pass.input.params)) =>
        LET start == AllocParams(NewVarIdPass, pass.input.params)
        IN  /\ pass.state.refs =
                  Lexical(pass.input.stmts, 1,
                          [refs |-> <<>>, env |-> start.bindings[1],
                           next |-> start.next_id]).refs
            /\ Len(pass.state.bindings) = 1

\* C22: execute with exactly the cell's argument names as parameters, none
\* of them twice, fails no assertion, and ends with every argument name
\* bound to the one id allocated for it.
C22_ArgumentsAsParameters ==
    (pass.done /\ pass.input.found
        /\ pass.input.params = Range(pass.input.args)
        /\ Cardinality(pass.input.params) = Len(pass.input.args)) =>
        /\ pass.state.panic \notin {"argument should not already be declared",
                                    "no duplicate parameters"}
        /\ pass.state.panic = "" =>
              \A a \in pass.input.params :
                  (\A k \in DOMAIN pass.input.stmts : pass.input.stmts[k].name # a) =>
                      pass.state.bindings[1][a] =
                          AllocParams(NewVarIdPass, pass.input.params).bindings[1][a]

\* The variables force_solution pins on Solver s, one for each iteration of
\* its loop: the first of the unsolved variables of that iteration.
RECURSIVE PinnedBy(_, _)
PinnedBy(s, left) ==
    IF fully_solved(s) \/ s.panicked \/ left = 0 THEN <<>>
    ELSE <<s.unsolved_vars[1]>>
         \o PinnedBy(solve(constrain_eq0(s, FromVar(s.unsolved_vars[1]))), left - 1)

\* C23: force_solution pins one variable that is unsolved at that point in
\* each iteration, every pinned variable has the value 0 afterwards, and no
\* variable that was solved when force_solution was called changes its value.
C23_ForcePinsToZero ==
    [][last'.op = "force_solution" =>
        LET pins == PinnedBy(solver, MaxVars + 1)
        IN  /\ last'.iterations = Len(pins)
            /\ \A k \in DOMAIN pins :
                  /\ ~is_solved(solver, pins[k])
                  /\ value_of(solver', pins[k]) = Some(0)
                  /\ \A j \in DOMAIN pins : pins[j] = pins[k] => j = k
            /\ \A v \in DOMAIN solver.solved_vars :
                  value_of(solver', v) = value_of(solver, v)]_vars

\* force_solution has pinned the one variable that was left, next to a
\* variable solved before to a value that is not 0.
C23_Witness ==
    /\ last.op = "force_solution"
    /\ last.entry = 1
    /\ last.iterations = 1
    /\ \E v \in DOMAIN solver.solved_vars : solver.solved_vars[v] # 0
    /\ \E v \in DOMAIN solver.solved_vars : solver.solved_vars[v] = 0

\* C24: a constraint with no free variable left whose residual is within
\* EPSILON of 0 is not added to inconsistent_constraints, neither by the
\* back-substitution of constrain_eq0 nor by solve().
C24_SameTolerance ==
    [][/\ last'.op = "constrain_eq0" =>
            \A expr \in Exprs(solver) :
                (/\ solver' = constrain_eq0(solver, expr)
                 /\ simplify(expr, solver.solved_vars).coeffs = <<>>
                 /\ Abs(simplify(expr, solver.solved_vars).constant) <= EPSILON) =>
                    last'.id \notin solver'.inconsistent_constraints
       /\ last'.op = "solve" =>
            \A k \in DOMAIN solver.constraints :
                (/\ simplify(solver.constraints[k].expr, solver'.solved_vars).coeffs = <<>>
                 /\ Abs(simplify(solver.constraints[k].expr,
                                  solver'.solved_vars).constant) <= EPSILON) =>
                    solver.constraints[k].id \notin solver'.inconsistent_constraints]_vars

\* C25: a constraint registered a second time, identical to an earlier
\* registration that is not inconsistent, is not added to
\* inconsistent_constraints.
C25_RepeatedNotInconsistent ==
    \A i \in DOMAIN log : \A j \in DOMAIN log :
        (/\ i < j
         /\ log[i].expr = log[j].expr
         /\ log[i].id \notin solver.inconsistent_constraints) =>
            log[j].id \notin solver.inconsistent_constraints

\* C26: the selected scope of the compile output the editor holds is a key
\* of its state map.
C26_SelectedScopeIsKey ==
    gui.cell # None => gui.cell[1].selected_scope \in gui.cell[1].state

\* C27: after two Cancel actions in a row the tool is Select with nothing
\* selected; a Cancel with pending input clears the input and keeps the
\* tool, and a Cancel with nothing pending gives the default tool.
C27_TwoCancelsReachSelect ==
    [][/\ gui'.cancels = 2 => gui'.tool = ToolDefault
       /\ gui'.cancels > 0 =>
            IF \/ gui.tool.kind = "DrawRect" /\ gui.tool.p0
               \/ gui.tool.kind = "DrawDim" /\ gui.tool.edges # 0
               \/ gui.tool.kind = "Select" /\ gui.tool.selected_obj
            THEN gui'.tool = Tool(gui.tool.kind, FALSE, 0, FALSE)
            ELSE gui'.tool = ToolDefault]_vars

\* Two Cancel actions in a row, of which the first one cleared a pending
\* input and the second one left a drawing tool.
C27_Witness ==
    /\ gui.cancels = 2
    /\ gui.tool = ToolDefault
    /\ gui.held = Tool("DrawRect", TRUE, 0, FALSE)

\* C28: while DrawRect holds a first corner, a layer is selected and is one
\* of the layers.
C28_PendingCornerHasLayer ==
    (gui.tool.kind = "DrawRect" /\ gui.tool.p0) =>
        gui.selected_layer # None /\ gui.selected_layer[1] \in gui.layers

\* C29: every edit draw_rect and add_eq_constraint send was placed with
\* spans computed from the text it is inserted into, and a handler that
\* finds the scope while the buffer differs from the source of the tree
\* sends no edit and shows the message.
C29_EditsOnCurrentText ==
    [][/\ \A k \in DOMAIN lsp'.edits : lsp'.edits[k].on = lsp'.edits[k].spans
       /\ (lsp'.handled = "scope" /\ lsp.buffer # None /\ lsp.buffer # lsp.ast) =>
              lsp'.edits = lsp.edits /\ lsp'.message]_vars

\* The elements of a sequence are pairwise different.
Distinct(q) == \A i \in DOMAIN q : \A j \in DOMAIN q : q[i] = q[j] => i = j

\* The explicit annotations of a list of items, in order.
Annotations(items) ==
    LET noted == SelectSeq(items, LAMBDA it : it.annotation # None)
    IN  Listed([k \in DOMAIN noted |-> noted[k].annotation[1]])

\* C30: when the explicit annotations directly inside each scope of the
\* source are pairwise different, the names the scopes and if-expressions
\* directly inside one scope carry after the pass, explicit and generated
\* ones, are pairwise different.
C30_SiblingNamesDistinct ==
    (/\ annot.done
     /\ Distinct(Annotations(annot.input))
     /\ \A k \in DOMAIN annot.input : Distinct(Annotations(annot.input[k].body))) =>
        /\ Distinct(Listed([k \in DOMAIN annot.named |-> annot.named[k].name]))
        /\ \A k \in DOMAIN annot.named :
              Distinct(Listed([j \in DOMAIN annot.named[k].inner |->
                                  annot.named[k].inner[j].name]))

====
